---- MODULE Spec2Model ----
(***************************************************************************)
(* yang-cache: the singleflight Group (Do, DoV2) and the sharded two-tier  *)
(* LRU store (lru2Store over two array-backed cache lists per shard).      *)
(***************************************************************************)
EXTENDS Integers, Sequences, FiniteSets, TLC

(***************************************************************************)
(* Bounds of the singleflight model.                                       *)
(***************************************************************************)
NProcs == 3
NKeys == 2

\* each goroutine makes one call of Do / DoV2 and allocates at most one call object
Procs == 1..NProcs
SfKeys == 1..NKeys
CallIds == Procs

\* nil of interface{} / error
Nil == 0
ErrNil == "nil"
ErrFail == "fail"
Errors == {ErrNil, ErrFail}

VARIABLES
  gm,       \* Group.m : key -> stored *call (0 when the key is absent)
  calls,    \* the allocated call objects: wg counter, val, err
  pc,       \* each goroutine's position in Do / DoV2
  key,      \* the key argument of the goroutine's current invocation
  c,        \* the local variable c (a *call)
  loaded,   \* DoV2: the local `loaded`; Do: the local `ok` of Load
  ret,      \* the (value, error) pair the goroutine's invocation returned
  fnret,    \* per call: the pair its execution of fn returned
  counter   \* per key: how many times fn has run (fn increments it)

sfvars == <<gm, calls, pc, key, c, loaded, ret, fnret, counter>>

\* state of the two-tier store and of the internal clock
VARIABLES
  caches,   \* lru2Store.caches: per shard, [0] the L1 list and [1] the L2 list
  clock,    \* the internal clock variable read by Now()
  clockI,   \* the clock updater's loop variable i: increments done
  lastSet,  \* per shard: the key whose Set was the last operation under its lock,
            \* and whether operations have changed other shards since (mid)
  res,      \* the last operation: its arguments, what it returned, the onEvicted
            \* calls it made (ev), and for a Get how it followed a Set (after)
  fired,    \* per written value: how many onEvicted calls carried it
  nwrites,  \* number of Set/SetWithExpiration calls so far
  written   \* per key: the value (v) and the expiry timestamp (e) of its latest
            \* Set/SetWithExpiration

storevars == <<caches, clock, clockI, lastSet, res, fired, nwrites, written>>

\* state of one array-backed list (cache) used on its own
VARIABLES
  lst,      \* the cache
  lhist,    \* the (key, value) pairs put, most recently touched (put or get) first,
            \* cut to the capacity; kept while lclean
  lclean,   \* no del and no put with expireAt <= 0 has happened yet
  lres      \* the last operation: its arguments, what it returned (r, n), the
            \* onEvicted calls it made (ev), those expected of an LRU list (expect),
            \* and for walk the nodes visited

listvars == <<lst, lhist, lclean, lres>>

\* state of the facade Cache and of the goroutines calling it
VARIABLES
  closed,       \* Cache.closed
  initialized,  \* Cache.initialized
  store,        \* Cache.store: 0 for nil, 1 for a store
  mu,           \* Cache.mu: the goroutine holding the write lock (w, 0 for none)
                \* and those holding the read lock (r)
  fpc,          \* where each calling goroutine is in its operation
  fop           \* the operation each goroutine called

facadevars == <<closed, initialized, store, mu, fpc, fop>>

NoRet == <<Nil, "none">>

\* type call struct { wg; val; err }  with zero values
call == [wg |-> 0, val |-> Nil, err |-> ErrNil]

InitSF ==
  /\ gm = [k \in SfKeys |-> 0]
  /\ calls = [i \in CallIds |-> call]
  /\ pc = [p \in Procs |-> "idle"]
  /\ key = [p \in Procs |-> 1]
  /\ c = [p \in Procs |-> 0]
  /\ loaded = [p \in Procs |-> FALSE]
  /\ ret = [p \in Procs |-> NoRet]
  /\ fnret = [i \in CallIds |-> NoRet]
  /\ counter = [k \in SfKeys |-> 0]

(***************************************************************************)
(* sync.Map and sync.WaitGroup primitives as used by the Group.            *)
(***************************************************************************)
\* a LoadOrStore that stores unconditionally and never reports "loaded"
LoadOrStoreBlind(m, k, new) ==
  [m |-> [m EXCEPT ![k] = new], actual |-> new, loaded |-> FALSE]

\* g.m.LoadOrStore(key, c): one atomic step
LoadOrStore(m, k, new) ==
  IF m[k] # 0
    THEN [m |-> m, actual |-> m[k], loaded |-> TRUE]
    ELSE [m |-> [m EXCEPT ![k] = new], actual |-> new, loaded |-> FALSE]

\* g.m.Load(key)
Load(m, k) == [actual |-> m[k], ok |-> m[k] # 0]

\* g.m.Store(key, c)
Store(m, k, new) == [m EXCEPT ![k] = new]

\* a Delete that leaves the entry in the map
MapDeleteNoop(m, k) == m

\* g.m.Delete(key)
MapDelete(m, k) == [m EXCEPT ![k] = 0]

\* a Wait that does not block
WgWaitNoBlock(i) == TRUE

\* c.wg.Wait() can return: the counter is zero
WgWait(i) == calls[i].wg = 0

\* c := &call{}; c.wg.Add(1)
NewCall(p) ==
  /\ calls' = [calls EXCEPT ![p] = [call EXCEPT !.wg = 1]]
  /\ c' = [c EXCEPT ![p] = p]

(***************************************************************************)
(* Group.DoV2                                                              *)
(***************************************************************************)
V2Begin(p, k) ==
  /\ pc[p] = "idle"
  /\ NewCall(p)
  /\ key' = [key EXCEPT ![p] = k]
  /\ pc' = [pc EXCEPT ![p] = "v2_los"]
  /\ UNCHANGED <<gm, loaded, ret, fnret, counter>>
  /\ UNCHANGED <<storevars, listvars, facadevars>>

V2LoadOrStore(p) ==
  /\ pc[p] = "v2_los"
  /\ LET r == LoadOrStore(gm, key[p], c[p]) IN
       /\ gm' = r.m
       /\ loaded' = [loaded EXCEPT ![p] = r.loaded]
       /\ c' = [c EXCEPT ![p] = r.actual]
       /\ pc' = [pc EXCEPT ![p] = IF r.loaded THEN "v2_wait" ELSE "v2_fn"]
  /\ UNCHANGED <<calls, key, ret, fnret, counter>>
  /\ UNCHANGED <<storevars, listvars, facadevars>>

V2Wait(p) ==
  /\ pc[p] = "v2_wait"
  /\ WgWait(c[p])
  /\ ret' = [ret EXCEPT ![p] = <<calls[c[p]].val, calls[c[p]].err>>]
  /\ pc' = [pc EXCEPT ![p] = "returned"]
  /\ UNCHANGED <<gm, calls, key, c, loaded, fnret, counter>>
  /\ UNCHANGED <<storevars, listvars, facadevars>>

V2FnStart(p) ==
  /\ pc[p] = "v2_fn"
  /\ pc' = [pc EXCEPT ![p] = "v2_infn"]
  /\ UNCHANGED <<gm, calls, key, c, loaded, ret, fnret, counter>>
  /\ UNCHANGED <<storevars, listvars, facadevars>>

V2FnEnd(p, e) ==
  /\ pc[p] = "v2_infn"
  /\ counter' = [counter EXCEPT ![key[p]] = @ + 1]
  /\ fnret' = [fnret EXCEPT ![c[p]] = <<counter[key[p]] + 1, e>>]
  /\ pc' = [pc EXCEPT ![p] = "v2_setval"]
  /\ UNCHANGED <<gm, calls, key, c, loaded, ret>>
  /\ UNCHANGED <<storevars, listvars, facadevars>>

V2SetVal(p) ==
  /\ pc[p] = "v2_setval"
  /\ calls' = [calls EXCEPT ![c[p]].val = fnret[c[p]][1]]
  /\ pc' = [pc EXCEPT ![p] = "v2_seterr"]
  /\ UNCHANGED <<gm, key, c, loaded, ret, fnret, counter>>
  /\ UNCHANGED <<storevars, listvars, facadevars>>

\* an assignment that swallows fn's error
V2SetErrSwallowed(p) ==
  /\ pc[p] = "v2_seterr"
  /\ calls' = [calls EXCEPT ![c[p]].err = ErrNil]
  /\ pc' = [pc EXCEPT ![p] = "v2_ret"]
  /\ UNCHANGED <<gm, key, c, loaded, ret, fnret, counter>>
  /\ UNCHANGED <<storevars, listvars, facadevars>>

V2SetErr(p) ==
  /\ pc[p] = "v2_seterr"
  /\ calls' = [calls EXCEPT ![c[p]].err = fnret[c[p]][2]]
  /\ pc' = [pc EXCEPT ![p] = "v2_ret"]
  /\ UNCHANGED <<gm, key, c, loaded, ret, fnret, counter>>
  /\ UNCHANGED <<storevars, listvars, facadevars>>

V2Return(p) ==
  /\ pc[p] = "v2_ret"
  /\ ret' = [ret EXCEPT ![p] = <<calls[c[p]].val, calls[c[p]].err>>]
  /\ pc' = [pc EXCEPT ![p] = "v2_del"]
  /\ UNCHANGED <<gm, calls, key, c, loaded, fnret, counter>>
  /\ UNCHANGED <<storevars, listvars, facadevars>>

V2Delete(p) ==
  /\ pc[p] = "v2_del"
  /\ gm' = MapDelete(gm, key[p])
  /\ pc' = [pc EXCEPT ![p] = "v2_done"]
  /\ UNCHANGED <<calls, key, c, loaded, ret, fnret, counter>>
  /\ UNCHANGED <<storevars, listvars, facadevars>>

\* a deferred function that returns without c.wg.Done()
V2DoneNoSignal(p) ==
  /\ pc[p] = "v2_done"
  /\ pc' = [pc EXCEPT ![p] = "returned"]
  /\ UNCHANGED <<gm, calls, key, c, loaded, ret, fnret, counter>>
  /\ UNCHANGED <<storevars, listvars, facadevars>>

V2Done(p) ==
  /\ pc[p] = "v2_done"
  /\ calls' = [calls EXCEPT ![c[p]].wg = @ - 1]
  /\ pc' = [pc EXCEPT ![p] = "returned"]
  /\ UNCHANGED <<gm, key, c, loaded, ret, fnret, counter>>
  /\ UNCHANGED <<storevars, listvars, facadevars>>

(***************************************************************************)
(* Group.Do                                                                *)
(***************************************************************************)
DoBegin(p, k) ==
  /\ pc[p] = "idle"
  /\ key' = [key EXCEPT ![p] = k]
  /\ pc' = [pc EXCEPT ![p] = "do_load"]
  /\ UNCHANGED <<gm, calls, c, loaded, ret, fnret, counter>>
  /\ UNCHANGED <<storevars, listvars, facadevars>>

DoLoad(p) ==
  /\ pc[p] = "do_load"
  /\ LET r == Load(gm, key[p]) IN
       /\ loaded' = [loaded EXCEPT ![p] = r.ok]
       /\ c' = [c EXCEPT ![p] = r.actual]
       /\ pc' = [pc EXCEPT ![p] = IF r.ok THEN "do_wait" ELSE "do_store"]
  /\ UNCHANGED <<gm, calls, key, ret, fnret, counter>>
  /\ UNCHANGED <<storevars, listvars, facadevars>>

DoWait(p) ==
  /\ pc[p] = "do_wait"
  /\ WgWait(c[p])
  /\ ret' = [ret EXCEPT ![p] = <<calls[c[p]].val, calls[c[p]].err>>]
  /\ pc' = [pc EXCEPT ![p] = "returned"]
  /\ UNCHANGED <<gm, calls, key, c, loaded, fnret, counter>>
  /\ UNCHANGED <<storevars, listvars, facadevars>>

DoStore(p) ==
  /\ pc[p] = "do_store"
  /\ NewCall(p)
  /\ gm' = Store(gm, key[p], p)
  /\ pc' = [pc EXCEPT ![p] = "do_fn"]
  /\ UNCHANGED <<key, loaded, ret, fnret, counter>>
  /\ UNCHANGED <<storevars, listvars, facadevars>>

DoFnStart(p) ==
  /\ pc[p] = "do_fn"
  /\ pc' = [pc EXCEPT ![p] = "do_infn"]
  /\ UNCHANGED <<gm, calls, key, c, loaded, ret, fnret, counter>>
  /\ UNCHANGED <<storevars, listvars, facadevars>>

DoFnEnd(p, e) ==
  /\ pc[p] = "do_infn"
  /\ counter' = [counter EXCEPT ![key[p]] = @ + 1]
  /\ fnret' = [fnret EXCEPT ![c[p]] = <<counter[key[p]] + 1, e>>]
  /\ pc' = [pc EXCEPT ![p] = "do_setval"]
  /\ UNCHANGED <<gm, calls, key, c, loaded, ret>>
  /\ UNCHANGED <<storevars, listvars, facadevars>>

DoSetVal(p) ==
  /\ pc[p] = "do_setval"
  /\ calls' = [calls EXCEPT ![c[p]].val = fnret[c[p]][1]]
  /\ pc' = [pc EXCEPT ![p] = "do_seterr"]
  /\ UNCHANGED <<gm, key, c, loaded, ret, fnret, counter>>
  /\ UNCHANGED <<storevars, listvars, facadevars>>

DoSetErr(p) ==
  /\ pc[p] = "do_seterr"
  /\ calls' = [calls EXCEPT ![c[p]].err = fnret[c[p]][2]]
  /\ pc' = [pc EXCEPT ![p] = "do_done"]
  /\ UNCHANGED <<gm, key, c, loaded, ret, fnret, counter>>
  /\ UNCHANGED <<storevars, listvars, facadevars>>

DoDone(p) ==
  /\ pc[p] = "do_done"
  /\ calls' = [calls EXCEPT ![c[p]].wg = @ - 1]
  /\ pc' = [pc EXCEPT ![p] = "do_del"]
  /\ UNCHANGED <<gm, key, c, loaded, ret, fnret, counter>>
  /\ UNCHANGED <<storevars, listvars, facadevars>>

DoDelete(p) ==
  /\ pc[p] = "do_del"
  /\ gm' = MapDelete(gm, key[p])
  /\ pc' = [pc EXCEPT ![p] = "do_ret"]
  /\ UNCHANGED <<calls, key, c, loaded, ret, fnret, counter>>
  /\ UNCHANGED <<storevars, listvars, facadevars>>

DoReturn(p) ==
  /\ pc[p] = "do_ret"
  /\ ret' = [ret EXCEPT ![p] = <<calls[c[p]].val, calls[c[p]].err>>]
  /\ pc' = [pc EXCEPT ![p] = "returned"]
  /\ UNCHANGED <<gm, calls, key, c, loaded, fnret, counter>>
  /\ UNCHANGED <<storevars, listvars, facadevars>>


(***************************************************************************)
(* The store: internal clock, hashing, the array-backed LRU list (cache)   *)
(* and the sharded two-tier lru2Store.                                     *)
(* Time is counted in steps of 100ms (the clock updater's increment) from  *)
(* an origin ClockOrigin steps before the process started.                 *)
(***************************************************************************)
ClockOrigin == 1
MaxTicks == 2
\* writes (Set/SetWithExpiration calls) explored on one shard, and across two shards
MaxWrites == 3
MaxWritesSharded == 2

\* the loop bound of the clock updater: for i := 0; i < 9; i++
ClockLoop == 9
\* Set's expiration 9999999999999999 (ns), in steps of 100ms
SetExpiration == 99999999
\* Options of the modelled store
BucketCount == 2
CapPerBucket == 1
Level2Cap == 1

\* keys are strings, given as their bytes: "a", "b", "c"
StoreKeys == {<<97>>, <<98>>, <<99>>}
\* "a" and "c": two keys of one shard when there are two shards
ShardKeys == {<<97>>, <<99>>}
\* expirations handed to SetWithExpiration, in steps of 100ms
Expirations == {0, 1}
\* a Value is identified by the write that supplied it (id); isNil tells whether
\* the interface value is nil. NilV is the nil of a slot never written.
NilV == [id |-> 0, isNil |-> TRUE]
Values == [id : 1..MaxWrites, isNil : BOOLEAN]

pre == 0
next == 1

RECURSIVE BitAnd(_, _)
BitAnd(a, b) ==
  IF a = 0 \/ b = 0 THEN 0
  ELSE (a % 2) * (b % 2) + 2 * BitAnd(a \div 2, b \div 2)

RECURSIVE BitOr(_, _)
BitOr(a, b) ==
  IF a = 0 THEN b
  ELSE IF b = 0 THEN a
  ELSE (IF a % 2 = 1 \/ b % 2 = 1 THEN 1 ELSE 0) + 2 * BitOr(a \div 2, b \div 2)

RECURSIVE Shr(_, _)
Shr(a, n) == IF n = 0 THEN a ELSE Shr(a \div 2, n - 1)

RECURSIVE hashFrom(_, _, _)
hashFrom(s, i, hash) ==
  IF i > Len(s) THEN hash ELSE hashFrom(s, i + 1, hash * 131 + s[i])

\* hashBKRD, for keys short enough not to overflow int32
hashBKRD(s) == hashFrom(s, 1, 0)

maskOfNextPowOf2(cap) ==
  IF cap > 0 /\ BitAnd(cap, cap - 1) = 0 THEN cap - 1
  ELSE LET c1 == BitOr(cap, Shr(cap, 1))
           c2 == BitOr(c1, Shr(c1, 2))
           c3 == BitOr(c2, Shr(c2, 4))
       IN BitOr(c3, Shr(c3, 8))

mask == maskOfNextPowOf2(BucketCount)
Shards == 0..mask
ShardOf(k) == BitAnd(hashBKRD(k), mask)

\* type node struct { k; v; expireAt } with zero values
node == [k |-> <<>>, v |-> NilV, expireAt |-> 0]

\* Create(cap); m is indexed 1..cap here, m[idx-1] in the source
Create(cap) ==
  [dlnk |-> [i \in 0..cap |-> [j \in 0..1 |-> 0]],
   m    |-> [i \in 1..cap |-> node],
   hmap |-> [k \in StoreKeys |-> 0],
   last |-> 0]

Cap(ch) == Len(ch.m)
HmapLen(ch) == Cardinality({k \in StoreKeys : ch.hmap[k] # 0})

\* an adjust that forgets to hand the slot's front link to its neighbour
adjustLinkLost(ch, idx, front, tail) ==
  IF ch.dlnk[idx][front] # 0
    THEN LET d0 == ch.dlnk
             curPre == d0[idx][front]
             d2 == [d0 EXCEPT ![curPre][tail] = d0[idx][tail]]
             d3 == [d2 EXCEPT ![idx][front] = 0]
             d4 == [d3 EXCEPT ![idx][tail] = d3[0][tail]]
             d5 == [d4 EXCEPT ![d4[0][tail]][front] = idx]
             d6 == [d5 EXCEPT ![0][tail] = idx]
         IN [ch EXCEPT !.dlnk = d6]
    ELSE ch

\* cache.adjust: unlink idx and relink it at the end named by front/tail
adjust(ch, idx, front, tail) ==
  IF ch.dlnk[idx][front] # 0
    THEN LET d0 == ch.dlnk
             curPre == d0[idx][front]
             curNext == d0[idx][tail]
             d1 == [d0 EXCEPT ![curNext][front] = d0[idx][front]]
             d2 == [d1 EXCEPT ![curPre][tail] = d1[idx][tail]]
             d3 == [d2 EXCEPT ![idx][front] = 0]
             d4 == [d3 EXCEPT ![idx][tail] = d3[0][tail]]
             d5 == [d4 EXCEPT ![d4[0][tail]][front] = idx]
             d6 == [d5 EXCEPT ![0][tail] = idx]
         IN [ch EXCEPT !.dlnk = d6]
    ELSE ch

\* an update that moves the entry to the head but keeps its old value
putUpdateStale(ch, key_, val, expireAt) ==
  LET idx == ch.hmap[key_]
      c1 == [ch EXCEPT !.m[idx].expireAt = expireAt]
  IN [c |-> adjust(c1, idx, pre, next), r |-> 0, ev |-> <<>>]

\* cache.put, key present: overwrite value and expireAt, move to the head
putUpdate(ch, key_, val, expireAt) ==
  LET idx == ch.hmap[key_]
      c1 == [ch EXCEPT !.m[idx].v = val, !.m[idx].expireAt = expireAt]
  IN [c |-> adjust(c1, idx, pre, next), r |-> 0, ev |-> <<>>]

\* a put into a full list that calls onEvicted whatever the tail slot's expireAt
putEvictAlways(ch, key_, val, expireAt) ==
  LET t == ch.dlnk[0][pre]
      tail == ch.m[t]
      h1 == IF tail.k \in StoreKeys
              THEN [ch.hmap EXCEPT ![tail.k] = 0] ELSE ch.hmap
      c1 == [ch EXCEPT !.hmap = [h1 EXCEPT ![key_] = t],
                       !.m[t] = [k |-> key_, v |-> val, expireAt |-> expireAt]]
  IN [c |-> adjust(c1, t, pre, next), r |-> 1, ev |-> <<<<tail.k, tail.v>>>>]

\* cache.put, list full: reuse the tail slot, calling onEvicted if it was live
putEvict(ch, key_, val, expireAt) ==
  LET t == ch.dlnk[0][pre]
      tail == ch.m[t]
      fire == IF tail.expireAt > 0 THEN <<<<tail.k, tail.v>>>> ELSE <<>>
      h1 == IF tail.k \in StoreKeys
              THEN [ch.hmap EXCEPT ![tail.k] = 0] ELSE ch.hmap
      c1 == [ch EXCEPT !.hmap = [h1 EXCEPT ![key_] = t],
                       !.m[t] = [k |-> key_, v |-> val, expireAt |-> expireAt]]
  IN [c |-> adjust(c1, t, pre, next), r |-> 1, ev |-> fire]

\* cache.put, room left: take the next slot and link it at the head
putAppend(ch, key_, val, expireAt) ==
  LET l == ch.last + 1
      d1 == IF HmapLen(ch) <= 0
              THEN [ch.dlnk EXCEPT ![0][pre] = l]
              ELSE [ch.dlnk EXCEPT ![ch.dlnk[0][next]][pre] = l]
      d2 == [d1 EXCEPT ![l] = [j \in 0..1 |-> IF j = pre THEN 0 ELSE d1[0][next]]]
      d3 == [d2 EXCEPT ![0][next] = l]
  IN [c |-> [dlnk |-> d3,
             m |-> [ch.m EXCEPT ![l] = [k |-> key_, v |-> val, expireAt |-> expireAt]],
             hmap |-> [ch.hmap EXCEPT ![key_] = l],
             last |-> l],
      r |-> 1, ev |-> <<>>]

\* cache.put; ev is the sequence of onEvicted calls it made
put(ch, key_, val, expireAt) ==
  IF ch.hmap[key_] # 0 THEN putUpdate(ch, key_, val, expireAt)
  ELSE IF ch.last = Cap(ch) THEN putEvict(ch, key_, val, expireAt)
  ELSE putAppend(ch, key_, val, expireAt)

\* a get that finds the node but leaves it where it is in the list
getNoAdjust(ch, key_) ==
  IF ch.hmap[key_] # 0
    THEN [c |-> ch, n |-> ch.hmap[key_], st |-> 1]
    ELSE [c |-> ch, n |-> 0, st |-> 0]

\* cache.get; n is the index of the returned node (0 for nil)
get(ch, key_) ==
  IF ch.hmap[key_] # 0
    THEN [c |-> adjust(ch, ch.hmap[key_], pre, next), n |-> ch.hmap[key_], st |-> 1]
    ELSE [c |-> ch, n |-> 0, st |-> 0]

\* cache.del; n is the index of the returned node (0 for nil), e its prior expireAt
del(ch, key_) ==
  IF ch.hmap[key_] # 0 /\ ch.m[ch.hmap[key_]].expireAt > 0
    THEN LET idx == ch.hmap[key_]
             c1 == [ch EXCEPT !.m[idx].expireAt = 0]
         IN [c |-> adjust(c1, idx, next, pre), n |-> idx, st |-> 1,
             e |-> ch.m[idx].expireAt]
    ELSE [c |-> ch, n |-> 0, st |-> 0, e |-> 0]

\* cache.walk with a walker that always returns true: the live nodes, head to tail
RECURSIVE walkFrom(_, _, _)
walkFrom(ch, idx, n) ==
  IF idx = 0 \/ n = 0 THEN <<>>
  ELSE (IF ch.m[idx].expireAt > 0 THEN <<ch.m[idx]>> ELSE <<>>)
         \o walkFrom(ch, ch.dlnk[idx][next], n - 1)

walk(ch) == walkFrom(ch, ch.dlnk[0][next], Cap(ch))



NoOp == [op |-> "none", k |-> <<>>, v |-> NilV, ok |-> FALSE, ev |-> <<>>,
         after |-> "none"]
NoSet == [k |-> <<>>, mid |-> FALSE]

\* newLRU2Cache: every shard gets Create(CapPerBucket) and Create(Level2Cap)
newLRU2Cache ==
  [i \in Shards |-> [l \in 0..1 |-> IF l = 0 THEN Create(CapPerBucket)
                                            ELSE Create(Level2Cap)]]

InitStore ==
  /\ caches = newLRU2Cache
  /\ clock = ClockOrigin
  /\ clockI = 0
  /\ lastSet = [i \in Shards |-> NoSet]
  /\ res = NoOp
  /\ fired = [v \in 1..MaxWrites |-> 0]
  /\ nwrites = 0
  /\ written = [k \in StoreKeys |-> [v |-> NilV, e |-> 0]]

\* lru2Store.delete on the two lists cs of one shard
delete(cs, key_) ==
  LET d1 == del(cs[0], key_)
      d2 == del(cs[1], key_)
      deleted == d1.st > 0 \/ d2.st > 0
      fire == IF ~deleted THEN <<>>
              ELSE IF d1.n # 0 /\ ~d1.c.m[d1.n].v.isNil
                THEN <<<<key_, d1.c.m[d1.n].v>>>>
              ELSE IF d2.n # 0 /\ ~d2.c.m[d2.n].v.isNil
                THEN <<<<key_, d2.c.m[d2.n].v>>>>
              ELSE <<>>
  IN [cs |-> [l \in 0..1 |-> IF l = 0 THEN d1.c ELSE d2.c],
      deleted |-> deleted, ev |-> fire]

\* lru2Store._get; now is its own reading of Now()
_get(cs, key_, level, now) ==
  LET g == get(cs[level], key_)
      cs1 == [cs EXCEPT ![level] = g.c]
  IN IF g.st > 0 /\ g.n # 0
       THEN IF g.c.m[g.n].expireAt <= 0 \/ now >= g.c.m[g.n].expireAt
              THEN [cs |-> cs1, n |-> 0, st |-> 0]
              ELSE [cs |-> cs1, n |-> g.n, st |-> g.st]
       ELSE [cs |-> cs1, n |-> 0, st |-> 0]

\* lru2Store.Get on the lists cs of the key's shard; currentTime is the reading of
\* Now() at line 332, now2 the later reading made inside _get
storeGet(cs, key_, currentTime, now2) ==
  LET d1 == del(cs[0], key_)
      csA == [cs EXCEPT ![0] = d1.c]
  IN IF d1.st > 0 /\ d1.e > 0 /\ currentTime >= d1.e
       THEN LET x == delete(csA, key_)
            IN [cs |-> x.cs, v |-> NilV, ok |-> FALSE, ev |-> x.ev]
       ELSE
         LET p == IF d1.st > 0
                    THEN put(csA[1], key_, d1.c.m[d1.n].v, d1.e)
                    ELSE [c |-> csA[1], r |-> 0, ev |-> <<>>]
             csB == [csA EXCEPT ![1] = p.c]
             g == _get(csB, key_, 1, now2)
         IN IF g.st > 0 /\ g.n # 0
              THEN IF g.cs[1].m[g.n].expireAt > 0
                        /\ currentTime >= g.cs[1].m[g.n].expireAt
                     THEN LET x == delete(g.cs, key_)
                          IN [cs |-> x.cs, v |-> NilV, ok |-> FALSE, ev |-> p.ev \o x.ev]
                     ELSE [cs |-> g.cs, v |-> g.cs[1].m[g.n].v, ok |-> TRUE, ev |-> p.ev]
              ELSE [cs |-> g.cs, v |-> NilV, ok |-> FALSE, ev |-> p.ev]

\* the expireAt computed by SetWithExpiration from its reading now of Now()
ExpireAt(now, expiration) == IF expiration > 0 THEN now + expiration ELSE 0

\* lru2Store.SetWithExpiration under the shard lock
storeSet(cs, key_, value, expireAt) ==
  LET p == put(cs[0], key_, value, expireAt)
  IN [cs |-> [cs EXCEPT ![0] = p.c], ev |-> p.ev]

\* cleanupLoop: the expired keys of one shard, L1 first, then those of L2 not yet listed
RECURSIVE expiredOf(_, _, _)
expiredOf(ns, currentTime, acc) ==
  IF ns = <<>> THEN acc
  ELSE LET n == Head(ns)
           hit == n.expireAt > 0 /\ currentTime >= n.expireAt
           dup == \E i \in 1..Len(acc) : acc[i] = n.k
       IN expiredOf(Tail(ns), currentTime,
                    IF hit /\ ~dup THEN Append(acc, n.k) ELSE acc)

\* within L1 the walk appends without looking for duplicates (keys of one list differ)
expiredKeys(cs, currentTime) ==
  expiredOf(walk(cs[1]), currentTime, expiredOf(walk(cs[0]), currentTime, <<>>))

RECURSIVE deleteAll(_, _, _)
deleteAll(cs, keys, evs) ==
  IF keys = <<>> THEN [cs |-> cs, ev |-> evs]
  ELSE LET x == delete(cs, Head(keys))
       IN deleteAll(x.cs, Tail(keys), evs \o x.ev)

\* cleanupLoop: the body run under one shard's lock
sweepShard(cs, currentTime) == deleteAll(cs, expiredKeys(cs, currentTime), <<>>)

\* lru2Store.Len
RECURSIVE lenFrom(_)
lenFrom(i) ==
  IF i > mask THEN 0
  ELSE Len(walk(caches[i][0])) + Len(walk(caches[i][1])) + lenFrom(i + 1)

StoreLen == lenFrom(0)

\* bookkeeping of the onEvicted calls of one operation
RECURSIVE CountIn(_, _)
CountIn(evs, id) ==
  IF evs = <<>> THEN 0
  ELSE (IF Head(evs)[2].id = id THEN 1 ELSE 0) + CountIn(Tail(evs), id)

\* what the caller of an operation on shard i observes, and the bookkeeping; op is
\* "set" for Set, "setx" for SetWithExpiration with another expiration
Returns(i, op, key_, v, ok, evs) ==
  /\ res' = [op |-> op, k |-> key_, v |-> v, ok |-> ok, ev |-> evs,
             after |-> IF op = "get" /\ lastSet[i].k = key_
                         THEN (IF lastSet[i].mid THEN "set_mid" ELSE "set")
                         ELSE "none"]
  /\ lastSet' = [j \in Shards |->
                  IF j = i THEN (IF op = "set" THEN [k |-> key_, mid |-> FALSE] ELSE NoSet)
                  ELSE IF lastSet[j] = NoSet \/ caches'[i] = caches[i] THEN lastSet[j]
                  ELSE [lastSet[j] EXCEPT !.mid = TRUE]]
  /\ fired' = [id \in 1..MaxWrites |-> fired[id] + CountIn(evs, id)]

\* the clock updater may still add to the clock
CanTick == clockI < ClockLoop /\ clockI < MaxTicks

(***************************************************************************)
(* Actions of the store.                                                   *)
(***************************************************************************)
\* init goroutine: one turn of the loop, atomic.AddInt64(&clock, 100ms)
\* (its opening atomic.StoreInt64 of time.Now() moves the clock forward as adds do
\* and is taken to have run before the first operation)
ClockAdd ==
  /\ CanTick
  /\ clock' = clock + 1
  /\ clockI' = clockI + 1
  /\ UNCHANGED <<sfvars, listvars, facadevars>>
  /\ UNCHANGED <<caches, lastSet, res, fired, nwrites, written>>

\* init goroutine: one turn of the loop, bounded by the loop condition alone
ClockLoopTurn ==
  /\ clockI < ClockLoop
  /\ clock' = clock + 1
  /\ clockI' = clockI + 1
  /\ UNCHANGED <<sfvars, listvars, facadevars>>
  /\ UNCHANGED <<caches, lastSet, res, fired, nwrites, written>>

\* lru2Store.Get(key); the clock updater may add between the two readings of Now()
Get(key_, tick) ==
  LET i == ShardOf(key_) IN
  \E r \in {storeGet(caches[i], key_, clock, clock + tick)} :
     /\ tick = 1 => CanTick
     /\ clock' = clock + tick
     /\ clockI' = clockI + tick
     /\ caches' = [caches EXCEPT ![i] = r.cs]
     /\ Returns(i, "get", key_, r.v, r.ok, r.ev)
     /\ UNCHANGED <<sfvars, listvars, facadevars>>
     /\ UNCHANGED <<nwrites, written>>

\* lru2Store.SetWithExpiration(key, value, expiration)
SetWithExpiration(key_, value, expiration) ==
  LET i == ShardOf(key_) IN
  \E r \in {storeSet(caches[i], key_, value, ExpireAt(clock, expiration))} :
     /\ value.id = nwrites + 1
     /\ nwrites' = nwrites + 1
     /\ written' = [written EXCEPT ![key_] = [v |-> value, e |-> ExpireAt(clock, expiration)]]
     /\ caches' = [caches EXCEPT ![i] = r.cs]
     /\ Returns(i, IF expiration = SetExpiration THEN "set" ELSE "setx", key_, value,
                TRUE, r.ev)
     /\ UNCHANGED <<sfvars, listvars, facadevars>>
     /\ UNCHANGED <<clock, clockI>>

\* lru2Store.Set(key, value)
Set(key_, value) == SetWithExpiration(key_, value, SetExpiration)

\* lru2Store.Delete(key)
Delete(key_) ==
  LET i == ShardOf(key_) IN
  \E r \in {delete(caches[i], key_)} :
     /\ caches' = [caches EXCEPT ![i] = r.cs]
     /\ Returns(i, "delete", key_, NilV, r.deleted, r.ev)
     /\ UNCHANGED <<sfvars, listvars, facadevars>>
     /\ UNCHANGED <<clock, clockI, nwrites, written>>

\* cleanupLoop: a pass, having read Now(), handles shard i under that shard's lock
SweepShard(i) ==
  \E r \in {sweepShard(caches[i], clock)} :
     /\ caches' = [caches EXCEPT ![i] = r.cs]
     /\ Returns(i, "sweep", <<>>, NilV, FALSE, r.ev)
     /\ UNCHANGED <<sfvars, listvars, facadevars>>
     /\ UNCHANGED <<clock, clockI, nwrites, written>>

(***************************************************************************)
(* One list (cache) driven directly: Create, put, get, del, walk.          *)
(***************************************************************************)
\* largest capacity handed to Create, number of values, and a live expireAt
ListCap == 2
NListVals == 2
ListExpiry == 5

ListVals == [id : 1..NListVals, isNil : {FALSE}]
ListExpireAts == {0, ListExpiry}

NoListOp == [op |-> "none", k |-> <<>>, r |-> 0, n |-> 0, ev |-> <<>>,
             expect |-> <<>>, walked |-> <<>>]

InitList ==
  /\ lst = Create(ListCap)
  /\ lhist = <<>>
  /\ lclean = TRUE
  /\ lres = NoListOp

\* the pairs of h other than key k's, order kept
RECURSIVE Without(_, _)
Without(h, k) ==
  IF h = <<>> THEN <<>>
  ELSE (IF Head(h)[1] = k THEN <<>> ELSE <<Head(h)>>) \o Without(Tail(h), k)

HasKey(h, k) == \E i \in 1..Len(h) : h[i][1] = k
PairOf(h, k) == h[CHOOSE i \in 1..Len(h) : h[i][1] = k]
FirstN(h, n) == IF Len(h) <= n THEN h ELSE SubSeq(h, 1, n)
RECURSIVE Pairs(_)
Pairs(ns) == IF ns = <<>> THEN <<>> ELSE <<<<Head(ns).k, Head(ns).v>>>> \o Pairs(Tail(ns))

\* Create(cap): a fresh list
LCreate(cap) ==
  /\ lst' = Create(cap)
  /\ lhist' = <<>>
  /\ lclean' = TRUE
  /\ lres' = [NoListOp EXCEPT !.op = "create"]
  /\ UNCHANGED <<sfvars, storevars, facadevars>>

\* c.put(key, val, expireAt, onEvicted)
LPut(key_, val, expireAt) ==
  \E p \in {put(lst, key_, val, expireAt)} :
     /\ lst' = p.c
     /\ lclean' = (lclean /\ expireAt > 0)
     /\ lhist' = IF lclean' THEN FirstN(<<<<key_, val>>>> \o Without(lhist, key_), Cap(lst))
                 ELSE <<>>
     /\ lres' = [NoListOp EXCEPT !.op = "put", !.k = key_, !.r = p.r, !.ev = p.ev,
                   !.expect = IF lclean /\ ~HasKey(lhist, key_) /\ Len(lhist) = Cap(lst)
                                THEN <<lhist[Len(lhist)]>> ELSE <<>>]
     /\ UNCHANGED <<sfvars, storevars, facadevars>>

\* c.get(key)
LGet(key_) ==
  \E g \in {get(lst, key_)} :
     /\ lst' = g.c
     /\ lhist' = IF lclean /\ HasKey(lhist, key_)
                   THEN <<PairOf(lhist, key_)>> \o Without(lhist, key_)
                   ELSE lhist
     /\ lres' = [NoListOp EXCEPT !.op = "get", !.k = key_, !.r = g.st, !.n = g.n]
     /\ UNCHANGED <<lclean, sfvars, storevars, facadevars>>

\* c.del(key)
LDel(key_) ==
  \E x \in {del(lst, key_)} :
     /\ lst' = x.c
     /\ lclean' = FALSE
     /\ lhist' = <<>>
     /\ lres' = [NoListOp EXCEPT !.op = "del", !.k = key_, !.r = x.st, !.n = x.n]
     /\ UNCHANGED <<sfvars, storevars, facadevars>>

\* c.walk(walker) with a walker that returns true
LWalk ==
  /\ lres' = [NoListOp EXCEPT !.op = "walk", !.walked = walk(lst)]
  /\ UNCHANGED <<lst, lhist, lclean, sfvars, storevars, facadevars>>

(***************************************************************************)
(* The facade Cache: lazy initialisation, operations and Close, each        *)
(* goroutine running one operation; the store behind it is reduced to       *)
(* being there (1) or nil (0).                                              *)
(***************************************************************************)
NCallers == 3
Callers == 1..NCallers
FacadeOps == {"Add", "AddWithExpiration", "Get", "Delete", "Len", "Clear", "Close"}
LazyOps == {"Add", "AddWithExpiration"}
ReadLockOps == {"Get", "Delete", "Len"}

InitFacade ==
  /\ closed = 0
  /\ initialized = 0
  /\ store = 0
  /\ mu = [w |-> 0, r |-> {}]
  /\ fpc = [p \in Callers |-> "idle"]
  /\ fop = [p \in Callers |-> "none"]

Rest == <<sfvars, storevars, listvars>>

\* a goroutine calls an operation of the Cache
CacheCall(p, op) ==
  /\ fpc[p] = "idle"
  /\ fop' = [fop EXCEPT ![p] = op]
  /\ fpc' = [fpc EXCEPT ![p] = IF op = "Close" THEN "cas" ELSE "closed_chk"]
  /\ UNCHANGED <<closed, initialized, store, mu, Rest>>

\* if atomic.LoadInt32(&c.closed) == 1 { return }
CheckClosed(p) ==
  /\ fpc[p] = "closed_chk"
  /\ fpc' = [fpc EXCEPT ![p] = IF closed = 1 THEN "done"
                               ELSE IF fop[p] \in LazyOps THEN "ensure"
                               ELSE "init_chk"]
  /\ UNCHANGED <<closed, initialized, store, mu, fop, Rest>>

\* Get, Delete, Len, Clear: if atomic.LoadInt32(&c.initialized) == 0 { return }
CheckInitialized(p) ==
  /\ fpc[p] = "init_chk"
  /\ fpc' = [fpc EXCEPT ![p] = IF initialized = 0 THEN "done" ELSE "lock"]
  /\ UNCHANGED <<closed, initialized, store, mu, fop, Rest>>

\* ensureInitialized, fast path: if atomic.LoadInt32(&c.initialized) == 1 { return }
EnsureFastPath(p) ==
  /\ fpc[p] = "ensure"
  /\ fpc' = [fpc EXCEPT ![p] = IF initialized = 1 THEN "after_ensure" ELSE "ensure_lock"]
  /\ UNCHANGED <<closed, initialized, store, mu, fop, Rest>>

\* ensureInitialized: c.mu.Lock()
EnsureLock(p) ==
  /\ fpc[p] = "ensure_lock"
  /\ mu.w = 0 /\ mu.r = {}
  /\ mu' = [mu EXCEPT !.w = p]
  /\ fpc' = [fpc EXCEPT ![p] = "ensure_chk"]
  /\ UNCHANGED <<closed, initialized, store, fop, Rest>>

\* ensureInitialized: if c.initialized == 0 { c.store = store.NewStore(...)
EnsureCreate(p) ==
  /\ fpc[p] = "ensure_chk"
  /\ IF initialized = 0
       THEN store' = 1 /\ fpc' = [fpc EXCEPT ![p] = "ensure_mark"]
       ELSE store' = store /\ fpc' = [fpc EXCEPT ![p] = "ensure_unlock"]
  /\ UNCHANGED <<closed, initialized, mu, fop, Rest>>

\* ensureInitialized: atomic.StoreInt32(&c.initialized, 1) }
EnsureMark(p) ==
  /\ fpc[p] = "ensure_mark"
  /\ initialized' = 1
  /\ fpc' = [fpc EXCEPT ![p] = "ensure_unlock"]
  /\ UNCHANGED <<closed, store, mu, fop, Rest>>

\* ensureInitialized: deferred c.mu.Unlock()
EnsureUnlock(p) ==
  /\ fpc[p] = "ensure_unlock"
  /\ mu' = [mu EXCEPT !.w = 0]
  /\ fpc' = [fpc EXCEPT ![p] = "after_ensure"]
  /\ UNCHANGED <<closed, initialized, store, fop, Rest>>

\* Add goes on to the store; AddWithExpiration returns if the time is already past
AfterEnsure(p, expired) ==
  /\ fpc[p] = "after_ensure"
  /\ expired => fop[p] = "AddWithExpiration"
  /\ fpc' = [fpc EXCEPT ![p] = IF expired THEN "done" ELSE "call"]
  /\ UNCHANGED <<closed, initialized, store, mu, fop, Rest>>

\* Get, Delete, Len: c.mu.RLock(); Clear: c.mu.Lock()
FacadeLock(p) ==
  /\ fpc[p] = "lock"
  /\ mu.w = 0
  /\ IF fop[p] \in ReadLockOps
       THEN mu' = [mu EXCEPT !.r = @ \cup {p}]
       ELSE mu.r = {} /\ mu' = [mu EXCEPT !.w = p]
  /\ fpc' = [fpc EXCEPT ![p] = "call"]
  /\ UNCHANGED <<closed, initialized, store, fop, Rest>>

\* the lock p holds, released
Released(p) == [w |-> IF mu.w = p THEN 0 ELSE mu.w, r |-> mu.r \ {p}]

\* c.store.Set / SetWithExpiration / Get / Delete / Len / Clear: a method call on
\* the interface value read from c.store, which panics if that value is nil (the
\* deferred unlock then runs). Add and AddWithExpiration read c.store without the
\* lock; what they read while Close writes it is one of the two values.
StoreCall(p) ==
  /\ fpc[p] = "call"
  /\ IF store = 0
       THEN fpc' = [fpc EXCEPT ![p] = "panicked"] /\ mu' = Released(p)
       ELSE fpc' = [fpc EXCEPT ![p] = IF fop[p] \in LazyOps THEN "done" ELSE "unlock"]
            /\ mu' = mu
  /\ UNCHANGED <<closed, initialized, store, fop, Rest>>

\* deferred c.mu.RUnlock() / c.mu.Unlock()
FacadeUnlock(p) ==
  /\ fpc[p] = "unlock"
  /\ mu' = Released(p)
  /\ fpc' = [fpc EXCEPT ![p] = "done"]
  /\ UNCHANGED <<closed, initialized, store, fop, Rest>>

\* Close: if !atomic.CompareAndSwapInt32(&c.closed, 0, 1) { return }
CloseCAS(p) ==
  /\ fpc[p] = "cas"
  /\ IF closed = 0
       THEN closed' = 1 /\ fpc' = [fpc EXCEPT ![p] = "close_lock"]
       ELSE closed' = closed /\ fpc' = [fpc EXCEPT ![p] = "done"]
  /\ UNCHANGED <<initialized, store, mu, fop, Rest>>

\* Close: c.mu.Lock()
CloseLock(p) ==
  /\ fpc[p] = "close_lock"
  /\ mu.w = 0 /\ mu.r = {}
  /\ mu' = [mu EXCEPT !.w = p]
  /\ fpc' = [fpc EXCEPT ![p] = "close_store"]
  /\ UNCHANGED <<closed, initialized, store, fop, Rest>>

\* Close: if c.store != nil { closer.Close(); c.store = nil }
CloseStore(p) ==
  /\ fpc[p] = "close_store"
  /\ store' = 0
  /\ fpc' = [fpc EXCEPT ![p] = "close_reset"]
  /\ UNCHANGED <<closed, initialized, mu, fop, Rest>>

\* Close: atomic.StoreInt32(&c.initialized, 0)
CloseReset(p) ==
  /\ fpc[p] = "close_reset"
  /\ initialized' = 0
  /\ fpc' = [fpc EXCEPT ![p] = "close_unlock"]
  /\ UNCHANGED <<closed, store, mu, fop, Rest>>

\* Close: deferred c.mu.Unlock(), and Close returns
CloseUnlock(p) ==
  /\ fpc[p] = "close_unlock"
  /\ mu' = [mu EXCEPT !.w = 0]
  /\ fpc' = [fpc EXCEPT ![p] = "closed"]
  /\ UNCHANGED <<closed, initialized, store, fop, Rest>>

NextFacade ==
  \E p \in Callers :
    \/ \E op \in FacadeOps : CacheCall(p, op)
    \/ CheckClosed(p)
    \/ CheckInitialized(p)
    \/ EnsureFastPath(p)
    \/ EnsureLock(p)
    \/ EnsureCreate(p)
    \/ EnsureMark(p)
    \/ EnsureUnlock(p)
    \/ \E expired \in BOOLEAN : AfterEnsure(p, expired)
    \/ FacadeLock(p)
    \/ StoreCall(p)
    \/ FacadeUnlock(p)
    \/ CloseCAS(p)
    \/ CloseLock(p)
    \/ CloseStore(p)
    \/ CloseReset(p)
    \/ CloseUnlock(p)

vars == <<sfvars, storevars, listvars, facadevars>>

NextV2 ==
  \E p \in Procs :
    \/ \E k \in SfKeys : V2Begin(p, k)
    \/ V2LoadOrStore(p)
    \/ V2Wait(p)
    \/ V2FnStart(p)
    \/ \E e \in Errors : V2FnEnd(p, e)
    \/ V2SetVal(p)
    \/ V2SetErr(p)
    \/ V2Return(p)
    \/ V2Delete(p)
    \/ V2Done(p)

NextDo ==
  \E p \in Procs :
    \/ \E k \in SfKeys : DoBegin(p, k)
    \/ DoLoad(p)
    \/ DoWait(p)
    \/ DoStore(p)
    \/ DoFnStart(p)
    \/ \E e \in Errors : DoFnEnd(p, e)
    \/ DoSetVal(p)
    \/ DoSetErr(p)
    \/ DoDone(p)
    \/ DoDelete(p)
    \/ DoReturn(p)

Init == InitSF /\ InitStore /\ InitList /\ InitFacade

SpecV2 == Init /\ [][NextV2]_vars
SpecDo == Init /\ [][NextDo]_vars

\* a goroutine that entered DoV2 goes on running: the scheduler is fair and fn returns
V2Step(p) ==
  \/ V2LoadOrStore(p)
  \/ V2Wait(p)
  \/ V2FnStart(p)
  \/ \E e \in Errors : V2FnEnd(p, e)
  \/ V2SetVal(p)
  \/ V2SetErr(p)
  \/ V2Return(p)
  \/ V2Delete(p)
  \/ V2Done(p)

SpecV2Fair == Init /\ [][NextV2]_vars /\ \A p \in Procs : WF_vars(V2Step(p))
\* the store on three keys spread over its shards
NextStore ==
  \/ ClockAdd
  \/ \E k \in StoreKeys, t \in 0..1 : Get(k, t)
  \/ \E k \in StoreKeys, v \in Values : nwrites < MaxWritesSharded /\ Set(k, v)
  \/ \E k \in StoreKeys, v \in Values, d \in Expirations :
       nwrites < MaxWritesSharded /\ SetWithExpiration(k, v, d)
  \/ \E k \in StoreKeys : Delete(k)
  \/ \E i \in Shards : SweepShard(i)

\* the store on the keys of one shard
NextShard ==
  \/ ClockAdd
  \/ \E k \in ShardKeys, t \in 0..1 : Get(k, t)
  \/ \E k \in ShardKeys, v \in Values : nwrites < MaxWrites /\ Set(k, v)
  \/ \E k \in ShardKeys, v \in Values, d \in Expirations :
       nwrites < MaxWrites /\ SetWithExpiration(k, v, d)
  \/ \E k \in ShardKeys : Delete(k)
  \/ \E i \in {ShardOf(k) : k \in ShardKeys} : SweepShard(i)

SpecStore == Init /\ [][NextStore]_vars
SpecShard == Init /\ [][NextShard]_vars

\* a store whose lists hold two entries each, under Set, Get, Delete and sweeps
RoomyCap == 2

InitRoomy ==
  /\ InitSF /\ InitList /\ InitFacade
  /\ caches = [i \in Shards |-> [l \in 0..1 |-> Create(RoomyCap)]]
  /\ clock = ClockOrigin
  /\ clockI = 0
  /\ lastSet = [i \in Shards |-> NoSet]
  /\ res = NoOp
  /\ fired = [v \in 1..MaxWrites |-> 0]
  /\ nwrites = 0
  /\ written = [k \in StoreKeys |-> [v |-> NilV, e |-> 0]]

NextRoomy ==
  \/ \E k \in ShardKeys : Get(k, 0)
  \/ \E k \in ShardKeys, v \in Values : nwrites < MaxWritesSharded /\ Set(k, v)
  \/ \E k \in ShardKeys : Delete(k)
  \/ \E i \in {ShardOf(k) : k \in ShardKeys} : SweepShard(i)

SpecRoomy == InitRoomy /\ [][NextRoomy]_vars

\* goroutines calling the facade, each one operation
SpecFacade == Init /\ [][NextFacade]_vars

\* the clock updater run to its end, beside operations that read Now()
ClockWrites == 1

NextClock ==
  \/ ClockLoopTurn
  \/ \E k \in ShardKeys : Get(k, 0)
  \/ \E k \in ShardKeys, v \in Values, d \in Expirations :
       nwrites < ClockWrites /\ SetWithExpiration(k, v, d)
  \/ \E k \in ShardKeys : Delete(k)
  \/ \E i \in {ShardOf(k) : k \in ShardKeys} : SweepShard(i)

\* the goroutine is scheduled whenever it can take a turn
SpecClock == Init /\ [][NextClock]_vars /\ WF_vars(ClockLoopTurn)

\* one list under every sequence of its operations
NextList ==
  \/ \E cap \in 1..ListCap : LCreate(cap)
  \/ \E k \in StoreKeys, v \in ListVals, e \in ListExpireAts : LPut(k, v, e)
  \/ \E k \in StoreKeys : LGet(k)
  \/ \E k \in StoreKeys : LDel(k)
  \/ LWalk

SpecList == Init /\ [][NextList]_vars

(***************************************************************************)
(* Properties of the singleflight Group.                                   *)
(***************************************************************************)
InFlightV2 == {"v2_los", "v2_wait", "v2_fn", "v2_infn", "v2_setval", "v2_seterr",
               "v2_ret", "v2_del", "v2_done"}
ExecutingV2(k) == {p \in Procs : key[p] = k /\ pc[p] = "v2_infn"}
ExecutingDo(k) == {p \in Procs : key[p] = k /\ pc[p] = "do_infn"}
\* goroutines whose own call object received a result of fn, or that are inside fn
RanFn(p) == fnret[p] # NoRet \/ pc[p] \in {"v2_fn", "v2_infn", "v2_setval", "v2_seterr"}
AllReturnedOn(k) == \A p \in Procs : pc[p] = "returned" /\ key[p] = k

\* C1: under every interleaving of DoV2 callers at most one execution of fn per key
\* is in progress at any moment, and a caller whose LoadOrStore reported the key as
\* present never executes fn.
C1_DoV2SingleExecution ==
  /\ \A k \in SfKeys : Cardinality(ExecutingV2(k)) <= 1
  /\ \A p \in Procs : loaded[p] => ~RanFn(p)

C1_Witness ==
  \E p, q \in Procs :
    /\ p # q /\ key[p] = key[q]
    /\ pc[p] = "v2_infn" /\ pc[q] = "v2_wait" /\ loaded[q] /\ c[q] = p

\* C2 (as claimed): with Do, fn runs only once per key while a request is in flight;
\* every other concurrent caller waits instead of executing fn itself.
C2_DoSingleExecution ==
  \A k \in SfKeys : Cardinality(ExecutingDo(k)) <= 1

C4_DoV2ReplaysResult ==
  \A p \in Procs :
    pc[p] \in {"returned", "v2_del", "v2_done"} =>
      /\ fnret[c[p]] # NoRet
      /\ ret[p] = fnret[c[p]]

C4_Witness ==
  \E p, q \in Procs :
    /\ p # q /\ pc[p] = "returned" /\ pc[q] = "returned"
    /\ loaded[q] /\ c[q] = p /\ ~loaded[p]
    /\ fnret[p][2] = ErrFail /\ ret[q][2] = ErrFail

QuietV2(k) == \A p \in Procs : key[p] = k => pc[p] \notin InFlightV2
QuietButV2(k, p) == \A q \in Procs \ {p} : key[q] = k => pc[q] \notin InFlightV2

\* C5: whenever no DoV2 invocation for k is in progress the table has no entry for
\* k (fn having returned a value or an error), and a DoV2 whose registration happens
\* in such a state becomes the executor and runs fn again.
C5_DoV2KeyRemoved ==
  /\ [](\A k \in SfKeys : QuietV2(k) => gm[k] = 0)
  /\ [][\A p \in Procs :
          (pc[p] = "v2_los" /\ pc'[p] # "v2_los" /\ QuietButV2(key[p], p))
             => (pc'[p] = "v2_fn" /\ ~loaded'[p])]_vars

C5_Witness ==
  \E p, q \in Procs :
    /\ p # q /\ key[p] = key[q]
    /\ pc[p] = "returned" /\ ~loaded[p] /\ fnret[p][2] = ErrFail
    /\ QuietButV2(key[q], q)
    /\ pc[q] = "v2_infn" /\ ~loaded[q]

(***************************************************************************)
(* Properties of the two-tier store.                                       *)
(***************************************************************************)
\* key k has a live entry in list l of the shard lists cs
LiveIn(cs, l, k) == cs[l].hmap[k] # 0 /\ cs[l].m[cs[l].hmap[k]].expireAt > 0
\* key k has a slot in list l whose expireAt marks it deleted
TombstonedIn(cs, l, k) == cs[l].hmap[k] # 0 /\ cs[l].m[cs[l].hmap[k]].expireAt <= 0
ValueIn(cs, l, k) == cs[l].m[cs[l].hmap[k]].v

\* C6: Set(k, v) followed immediately by Get(k) returns (v, true), whatever
\* operations changed other shards between the two calls.
C6_SetGetRoundTrip ==
  (res.op = "get" /\ res.after # "none") =>
     (res.ok /\ res.v = written[res.k].v)

C6_Witness ==
  /\ res.op = "get" /\ res.after = "set_mid"
  /\ res.ok /\ res.v = written[res.k].v
  /\ \E j \in Shards \ {ShardOf(res.k)} : \E k \in StoreKeys : LiveIn(caches[j], 1, k)

\* C7 (as claimed): a successful Get(k) returns the value of the most recent
\* Set/SetWithExpiration of k, never a value that a later write of k superseded.
C7_GetReturnsLatestWrite ==
  (res.op = "get" /\ res.ok) => res.v = written[res.k].v

\* C8 (as claimed): immediately after Set(k, v) the key is live in L1 only, and
\* immediately after one subsequent successful Get(k) it is live in L2 only and
\* tombstoned in L1.
C8_SingleAccessPromotion ==
  /\ res.op = "set" =>
       LET cs == caches[ShardOf(res.k)]
       IN LiveIn(cs, 0, res.k) /\ ~LiveIn(cs, 1, res.k)
  /\ (res.op = "get" /\ res.after = "set" /\ res.ok) =>
       LET cs == caches[ShardOf(res.k)]
       IN TombstonedIn(cs, 0, res.k) /\ LiveIn(cs, 1, res.k)

\* C9 (as claimed): a Get(k) whose reading of Now() is at or past the expiry
\* timestamp of k's entry returns not-found, and no entry is passed to the
\* eviction callback more than once.
C9_ExpiredGetNotFound ==
  [][/\ \A k \in ShardKeys, t \in 0..1 :
          (Get(k, t) /\ written[k].e > 0 /\ clock >= written[k].e) => ~res'.ok
     /\ \A id \in 1..MaxWrites : fired'[id] <= 1]_vars

\* C10 (as claimed): Delete(k) of a key live in no tier returns false, fires no
\* callback and changes no liveness; Delete(k) of a key live in some tier returns
\* true, tombstones k in both tiers and fires the callback exactly once, with the
\* L1 value when both tiers hold a live copy.
C10_DeleteContract ==
  [][\A k \in ShardKeys :
       Delete(k) =>
         LET cs  == caches[ShardOf(k)]
             cs2 == caches'[ShardOf(k)]
         IN IF ~LiveIn(cs, 0, k) /\ ~LiveIn(cs, 1, k)
              THEN /\ ~res'.ok
                   /\ res'.ev = <<>>
                   /\ \A l \in 0..1, x \in StoreKeys : LiveIn(cs2, l, x) = LiveIn(cs, l, x)
              ELSE /\ res'.ok
                   /\ ~LiveIn(cs2, 0, k) /\ ~LiveIn(cs2, 1, k)
                   /\ res'.ev = <<<<k, IF LiveIn(cs, 0, k) THEN ValueIn(cs, 0, k)
                                                          ELSE ValueIn(cs, 1, k)>>>>]_vars

\* C11 (as claimed): SetWithExpiration(k, v, 0) stores k live with a positive
\* expireAt, so that Len counts it and an immediately following Get(k) returns
\* (v, true).
C11_ZeroExpirationIsLive ==
  [][\A k \in ShardKeys :
       /\ \A v \in Values :
            SetWithExpiration(k, v, 0) =>
              /\ LiveIn(caches'[ShardOf(k)], 0, k)
              /\ StoreLen' >= 1
       /\ \A t \in 0..1 :
            (Get(k, t) /\ res.op = "setx" /\ res.k = k /\ written[k].e = 0) =>
              (res'.ok /\ res'.v = written[k].v)]_vars

(***************************************************************************)
(* Properties of one list.                                                 *)
(***************************************************************************)
\* C12: with puts of live expiries and gets only, the list holds exactly the
\* most recently touched keys up to its capacity, each retrievable with its
\* value, walk yields them most recent first, and a put calls onEvicted exactly
\* when it inserts a new key into a full list, once, with the least recently
\* touched key and its value.
C12_LRUEviction ==
  lclean =>
    /\ Pairs(walk(lst)) = lhist
    /\ \A k \in StoreKeys :
         LET g == get(lst, k)
         IN IF HasKey(lhist, k)
              THEN g.st = 1 /\ g.n # 0 /\ <<k, lst.m[g.n].v>> = PairOf(lhist, k)
              ELSE g.st = 0 /\ g.n = 0
    /\ lres.op = "put" => lres.ev = lres.expect

C12_Witness ==
  /\ lclean /\ Cap(lst) = ListCap /\ Len(lhist) = ListCap
  /\ lres.op = "put" /\ Len(lres.ev) = 1 /\ lres.ev = lres.expect
  /\ lres.ev[1][1] \notin {lhist[i][1] : i \in 1..Len(lhist)}
  /\ Pairs(walk(lst))[1][1] = lres.k

(***************************************************************************)
(* Properties of the internal clock.                                       *)
(***************************************************************************)
\* C13 (as claimed): Now() never decreases and never freezes: the updater keeps
\* advancing the clock, so every timestamp is eventually reached, also one more
\* than a second's worth of increments past the start.
C13_ClockNeverFreezes ==
  /\ [][clock' >= clock]_vars
  /\ <>(clock >= ClockOrigin + ClockLoop + 1)

\* the slots visited by following link dir from the sentinel, at most n of them
RECURSIVE Chain(_, _, _, _)
Chain(ch, idx, dir, n) ==
  IF idx = 0 \/ n = 0 THEN <<>>
  ELSE <<idx>> \o Chain(ch, ch.dlnk[idx][dir], dir, n - 1)

Reverse(q) == [i \in 1..Len(q) |-> q[Len(q) + 1 - i]]
Mapped(ch) == {k \in StoreKeys : ch.hmap[k] # 0}

\* C14: every mapped key refers to one slot in 1..last holding that key, distinct
\* keys to distinct slots, the number of mapped keys is last <= capacity, the next
\* links from the sentinel visit exactly the slots 1..last once each and return to
\* the sentinel, and the prev links give the reverse order.
C14_ListStructure ==
  LET fwd == Chain(lst, lst.dlnk[0][next], next, Cap(lst) + 1)
      bwd == Chain(lst, lst.dlnk[0][pre], pre, Cap(lst) + 1)
  IN /\ \A k \in Mapped(lst) : lst.hmap[k] \in 1..lst.last /\ lst.m[lst.hmap[k]].k = k
     /\ \A k1, k2 \in Mapped(lst) : k1 # k2 => lst.hmap[k1] # lst.hmap[k2]
     /\ Cardinality(Mapped(lst)) = lst.last
     /\ lst.last <= Cap(lst)
     /\ Len(fwd) = lst.last
     /\ {fwd[i] : i \in 1..Len(fwd)} = 1..lst.last
     /\ bwd = Reverse(fwd)

C14_Witness ==
  /\ lres.op = "put" /\ lst.last = ListCap /\ ~lclean
  /\ \E k \in Mapped(lst) : lst.m[lst.hmap[k]].expireAt = 0
  /\ \E k \in Mapped(lst) : lst.m[lst.hmap[k]].expireAt > 0
  /\ lst.m[lst.dlnk[0][next]].expireAt = 0

\* the slot that put would reuse in list l of cs is tombstoned
TailTombstoned(cs, l) ==
  /\ cs[l].last = Cap(cs[l])
  /\ cs[l].m[cs[l].dlnk[0][pre]].expireAt <= 0

\* C15: every onEvicted call of an operation carries a key and value that were
\* live in some tier of the key's shard just before the operation, and a put that
\* reuses a tombstoned tail slot calls nothing.
C15_NoCallbackForTombstone ==
  [][/\ fired' # fired =>
          \A n \in 1..Len(res'.ev) :
             LET k  == res'.ev[n][1]
                 cs == caches[ShardOf(k)]
             IN \E l \in 0..1 : LiveIn(cs, l, k) /\ ValueIn(cs, l, k) = res'.ev[n][2]
     /\ nwrites' # nwrites =>
          LET cs == caches[ShardOf(res'.k)]
          IN (cs[0].hmap[res'.k] = 0 /\ TailTombstoned(cs, 0)) => res'.ev = <<>>]_vars

C15_Witness ==
  /\ res.op = "set" /\ res.ev = <<>>
  /\ \A id \in 1..MaxWrites : fired[id] = 0
  /\ \E a \in ShardKeys :
       /\ a # res.k /\ written[a].v # NilV
       /\ caches[ShardOf(a)][0].hmap[a] = 0
       /\ LiveIn(caches[ShardOf(a)], 1, a)

\* C16 (as claimed): a Get(k) that finds k not live in L1 and live in L2 with an
\* expiry at or before its reading of Now() deletes the entry (afterwards k is
\* live in no tier and Len is one less), calls onEvicted for it and returns
\* not-found.
C16_ExpiredL2Deleted ==
  [][\A k \in ShardKeys, t \in 0..1 :
       LET cs == caches[ShardOf(k)]
       IN (/\ Get(k, t)
           /\ ~LiveIn(cs, 0, k)
           /\ LiveIn(cs, 1, k)
           /\ clock >= cs[1].m[cs[1].hmap[k]].expireAt)
          => /\ ~res'.ok
             /\ ~LiveIn(caches'[ShardOf(k)], 0, k)
             /\ ~LiveIn(caches'[ShardOf(k)], 1, k)
             /\ StoreLen' = StoreLen - 1
             /\ res'.ev = <<<<k, ValueIn(cs, 1, k)>>>>]_vars

\* C17: when fn returns and scheduling is fair, every goroutine that entered DoV2,
\* executor or waiter, eventually returns; in particular a waiter returns once the
\* executor of its call has returned.
C17_DoV2CallersReturn ==
  \A p \in Procs : (pc[p] \in InFlightV2) ~> (pc[p] = "returned")

C17_Witness ==
  \E p, q \in Procs :
    /\ p # q /\ key[p] = key[q]
    /\ pc[p] = "returned" /\ ~loaded[p]
    /\ pc[q] = "returned" /\ loaded[q] /\ c[q] = p
    /\ ret[q] = fnret[p] /\ calls[p].wg = 0

\* the slots of list ch from the head; no tombstoned slot comes before a live one
TombstonesLast(ch) ==
  LET q == Chain(ch, ch.dlnk[0][next], next, Cap(ch))
  IN \A i, j \in 1..Len(q) :
       (i < j /\ ch.m[q[j]].expireAt > 0) => ch.m[q[i]].expireAt > 0
HasTombstone(ch) == \E i \in 1..ch.last : ch.m[i].expireAt <= 0

\* C18 (as claimed): in each list of the store tombstoned slots sit behind all live
\* slots, and a put that reclaims a live tail entry of a full list (calling
\* onEvicted) finds no tombstoned slot in that list.
C18_TombstonesReclaimedFirst ==
  /\ [](\A i \in Shards, l \in 0..1 : TombstonesLast(caches[i][l]))
  /\ [][\A i \in Shards, l \in 0..1 :
          LET ch == caches[i][l]
          IN (/\ ch.last = Cap(ch)
              /\ ch.m[ch.dlnk[0][pre]].expireAt > 0
              /\ caches'[i][l].hmap[ch.m[ch.dlnk[0][pre]].k] = 0)
             => ~HasTombstone(ch)]_vars

\* C19 (as claimed): a sweep pass leaves every key whose latest write expires after
\* the pass's reading of the clock retrievable with that value (live in a tier with
\* it), and calls onEvicted with no such value.
C19_SweepRemovesOnlyExpired ==
  [][\A i \in {ShardOf(k) : k \in ShardKeys} :
       SweepShard(i) =>
         \A k \in ShardKeys :
           LET cs == caches[ShardOf(k)]
           IN (/\ written[k].e > clock
               /\ \E l \in 0..1 : LiveIn(cs, l, k) /\ ValueIn(cs, l, k) = written[k].v)
              => /\ \E l \in 0..1 : /\ LiveIn(caches'[ShardOf(k)], l, k)
                                    /\ ValueIn(caches'[ShardOf(k)], l, k) = written[k].v
                 /\ \A n \in 1..Len(res'.ev) : res'.ev[n][2] # written[k].v]_vars

(***************************************************************************)
(* Properties of the facade Cache.                                         *)
(***************************************************************************)
\* C20 (as claimed): whatever way Close interleaves with the other operations, no
\* operation calls a method on a nil store, and once the Close that closed the
\* cache has returned, initialized is 0 and store is nil.
C20_CloseIsFinal ==
  /\ \A p \in Callers : fpc[p] # "panicked"
  /\ (\E p \in Callers : fpc[p] = "closed") => (initialized = 0 /\ store = 0)

====
